---- MODULE Spec2Model ----
(***************************************************************************)
(* Model of the YouTubeChannelVideos widget (youtube_channel_videos.py):   *)
(* the transcription client _get_transcription, the link cache helpers,    *)
(* the freshness probe and the orchestration in execute.                   *)
(*                                                                         *)
(* Python values are encoded uniformly: None is the string "None", a       *)
(* message (an f-string) is the sequence of its fragments, and an HTTP     *)
(* exchange is a record whose `kind` says whether a response arrived or    *)
(* which exception requests raised.                                        *)
(***************************************************************************)
EXTENDS Integers, Sequences, FiniteSets, TLC

(* ------------------------------ bounds -------------------------------- *)

\* Number of poll attempts of one _get_transcription call (the default of
\* the source is 60; the loop is the same for every value).
MaxPolls == 3

\* Longest list the channel scraper returns.
MaxVideos == 2

\* Calls of _save_link_to_store that the runs sharing a store make together.
MaxSaves == 2

(* ------------------------- Python conventions ------------------------- *)

None == "None"

\* `not x` for the strings and None the code tests.
Falsy(x) == x \in {None, ""}

\* text[:200]
TextLimit == 200

Truncate(text) ==
    IF Len(text) <= TextLimit THEN text ELSE SubSeq(text, 1, TextLimit)

Contains(msg, frag) == \E k \in 1..Len(msg) : msg[k] = frag

(* ----------------------- the transcription service -------------------- *)

\* What one requests.post can end in: an HTTP response (status code, body)
\* or an exception.  json is "object" (a JSON object, whose keys task_id,
\* status and error are None when absent), "array" (valid JSON that is not
\* an object) or "invalid" (json() raises JSONDecodeError).
Http(code, json, tid, status, error) ==
    [kind |-> "http", code |-> code, json |-> json, task_id |-> tid,
     status |-> status, error |-> error, text |-> <<"body">>]

Raised(exc) ==
    [kind |-> exc, code |-> 0, json |-> "invalid", task_id |-> None,
     status |-> None, error |-> None, text |-> <<>>]

NoExchange == Raised("none")

\* requests.exceptions.Timeout, another requests.exceptions.RequestException
\* (ConnectionError), and an exception outside the requests hierarchy.
Exceptions == {"Timeout", "ConnectionError", "Exception"}

SubmitCodes == {200, 201, 202, 400, 500}

SubmitBodies ==
    {Http(0, "object", t, None, None) : t \in {None, "", "t1", "t2"}}
      \cup {Http(0, "array", None, None, None),
            Http(0, "invalid", None, None, None)}

SubmitResponses ==
    {[b EXCEPT !.code = c] : c \in SubmitCodes, b \in SubmitBodies}
      \cup {Raised(e) : e \in Exceptions}

PollStatuses == {"SUCCESS", "FAILED", "RUNNING", "QUEUED", None}

PollResponses ==
    {Http(200, "object", None, s, e) : s \in PollStatuses, e \in {None, "oom"}}
      \cup {Http(200, "array", None, None, None),
            Http(200, "invalid", None, None, None)}
      \cup {Http(c, "invalid", None, None, None) : c \in {202, 404, 500}}
      \cup {Raised(e) : e \in Exceptions}

(* --------------------- return values of the client -------------------- *)

\* A returned pair (status, payload): payload is the decoded body on
\* success (data) and a message otherwise.
Pair(status, data, message) ==
    [kind |-> "pair", status |-> status, data |-> data, message |-> message]

ErrorPair(message) == Pair("error", NoExchange, message)

\* A function that falls off its end returns None.
PyNone == [kind |-> "None", status |-> None, data |-> NoExchange, message |-> <<>>]

NotReturned == [kind |-> "running", status |-> None, data |-> NoExchange, message |-> <<>>]

\* repr(e) of an exception raised without arguments, as message fragments.
Repr(exc) == <<exc, "()">>

VARIABLES
    pc,                 \* position of execute
    config,             \* the widget's configuration
    environ,            \* os.environ: APIFY_API_KEY, WHISPERX_MODEL_URL
    transcribe_videos,  \* execute's local, switched off without a service URL
    whisperx_base_url,  \* execute's local
    store_id,
    kv,                 \* the key-value store: MAP_KEY -> link map
    filtered_videos,
    total_fetched,
    filtered_count,
    idx,                \* the video the current loop is at
    result,             \* what execute returned
    net,                \* per video: the network calls made for it
    trail,              \* per video: what the download policy observed
    runlog,             \* the run's calls before the download loop
    savers,             \* concurrent callers of the link cache
    cachelog,           \* the last completed calls of the link cache
    prober,             \* a call of _is_url_valid on its own
    tpc,                \* position of _get_transcription
    targs,              \* its arguments
    task_id,
    attempt,            \* iterations of the poll loop entered so far
    tret,               \* its return value
    submits, polls, sleeps,  \* requests and sleeps of the current call
    lastSubmit, lastPoll     \* the last exchange of each kind

tvars == <<tpc, targs, task_id, attempt, tret, submits, polls, sleeps,
           lastSubmit, lastPoll>>

evars == <<pc, config, environ, transcribe_videos, whisperx_base_url, store_id,
           kv, filtered_videos, total_fetched, filtered_count, idx, result,
           net, trail, runlog, savers, cachelog, prober>>

evarsButProber == <<pc, config, environ, transcribe_videos, whisperx_base_url,
                    store_id, kv, filtered_videos, total_fetched, filtered_count,
                    idx, result, net, trail, runlog, savers, cachelog>>

vars == <<evars, tvars>>

(* ----------------------- _get_transcription --------------------------- *)

max_polls == MaxPolls

\* Lines 141-150: a submission answered 200, 201 or 202.  The pair to
\* return, or NotReturned when a task_id was received and polling starts.
SubmitBody_NoTaskIdCheck(r) ==
    CASE r.json = "invalid" ->
           ErrorPair(<<"Transcription submission failed: Invalid JSON. Status: ",
                       ToString(r.code), ", Response: ">> \o Truncate(r.text))
      [] r.json = "array" ->
           ErrorPair(<<"Unexpected transcription error: ">> \o Repr("AttributeError"))
      [] OTHER -> NotReturned

SubmitBody(r) ==
    CASE r.json = "invalid" ->
           ErrorPair(<<"Transcription submission failed: Invalid JSON. Status: ",
                       ToString(r.code), ", Response: ">> \o Truncate(r.text))
      [] r.json = "array" ->
           \* submit_data.get raises AttributeError, caught at line 232
           ErrorPair(<<"Unexpected transcription error: ">> \o Repr("AttributeError"))
      [] OTHER ->
           IF Falsy(r.task_id)
           THEN ErrorPair(<<"Transcription submission failed: No task_id. Status: ",
                            ToString(r.code), ", Response: ">> \o Truncate(r.text))
           ELSE NotReturned

\* The submission step (lines 127-153 and the handlers at 218-234): the
\* pair to return, or NotReturned when the task was accepted.
SubmitOutcome(r) ==
    CASE r.kind = "Timeout" ->
           ErrorPair(<<"Transcription submission timed out.">>)
      [] r.kind = "ConnectionError" ->
           ErrorPair(<<"Transcription submission error: ">> \o Repr(r.kind))
      [] r.kind = "Exception" ->
           ErrorPair(<<"Unexpected transcription error: ">> \o Repr(r.kind))
      [] OTHER ->
           IF r.code \in {200, 201, 202}
           THEN SubmitBody(r)
           ELSE ErrorPair(<<"Transcription submission failed. Status: ",
                            ToString(r.code), ", Response: ">> \o Truncate(r.text))

\* Lines 172-195: a poll answered 200.  The pair to return, or NotReturned
\* for `continue`.
PollBody_UnknownFatal(r) ==
    CASE r.json = "invalid" -> NotReturned
      [] r.json = "array" ->
           ErrorPair(<<"Unexpected transcription error: ">> \o Repr("AttributeError"))
      [] OTHER ->
           CASE r.status = "SUCCESS" -> Pair("success", r, <<>>)
             [] r.status = "FAILED" ->
                  ErrorPair(<<"Transcription failed: ",
                              IF r.error = None
                              THEN "Unknown transcription failure reason."
                              ELSE r.error>>)
             [] r.status = "RUNNING" -> NotReturned
             [] OTHER -> ErrorPair(<<"Unexpected API status">>)

PollBody(r) ==
    CASE r.json = "invalid" -> NotReturned
      [] r.json = "array" ->
           \* result_data.get raises AttributeError, caught at line 232
           ErrorPair(<<"Unexpected transcription error: ">> \o Repr("AttributeError"))
      [] OTHER ->
           CASE r.status = "SUCCESS" -> Pair("success", r, <<>>)
             [] r.status = "FAILED" ->
                  ErrorPair(<<"Transcription failed: ",
                              IF r.error = None
                              THEN "Unknown transcription failure reason."
                              ELSE r.error>>)
             [] r.status = "RUNNING" -> NotReturned
             [] OTHER -> NotReturned

\* Lines 171-208: the status code of a poll response.
PollStatus_404Retry(r, tid) ==
    CASE r.code = 200 -> PollBody(r)
      [] r.code = 202 -> NotReturned
      [] r.code = 404 -> NotReturned
      [] OTHER ->
           ErrorPair(<<"Polling error. Status: ", ToString(r.code),
                       ", Response: ">> \o Truncate(r.text))

PollStatus(r, tid) ==
    CASE r.code = 200 -> PollBody(r)
      [] r.code = 202 -> NotReturned
      [] r.code = 404 ->
           ErrorPair(<<"Polling error: Task ID ", tid, " not found (", "404", ").">>)
      [] OTHER ->
           ErrorPair(<<"Polling error. Status: ", ToString(r.code),
                       ", Response: ">> \o Truncate(r.text))

\* One iteration of the poll loop after its request (lines 160-216, and
\* the handler at 232 for what the inner handlers let through): the pair
\* to return, or NotReturned for `continue`.
PollOutcome_TimeoutFatal(r, tid) ==
    CASE r.kind = "Timeout" ->
           ErrorPair(<<"Polling request timed out.">>)
      [] r.kind = "ConnectionError" ->
           ErrorPair(<<"Polling connection error: ">> \o Repr(r.kind))
      [] r.kind = "Exception" ->
           ErrorPair(<<"Unexpected transcription error: ">> \o Repr(r.kind))
      [] OTHER -> PollStatus(r, tid)

PollOutcome(r, tid) ==
    CASE r.kind = "Timeout" -> NotReturned
      [] r.kind = "ConnectionError" ->
           ErrorPair(<<"Polling connection error: ">> \o Repr(r.kind))
      [] r.kind = "Exception" ->
           ErrorPair(<<"Unexpected transcription error: ">> \o Repr(r.kind))
      [] OTHER -> PollStatus(r, tid)

\* What the function returns when range(max_polls) is used up: the loop
\* ends, the try block ends, and no return statement follows (line 216).
LoopExhausted == PyNone

\* The call: the body up to the end of the submission.
get_transcription_submit(R) ==
    /\ tpc = "call"
    /\ IF Falsy(targs.whisperx_base_url)
       THEN /\ tret' = ErrorPair(<<"WHISPERX_MODEL_URL not configured.">>)
            /\ tpc' = "ret"
            /\ UNCHANGED <<task_id, submits, lastSubmit>>
       ELSE \E r \in R :
              /\ submits' = submits + 1
              /\ lastSubmit' = r
              /\ tret' = SubmitOutcome(r)
              /\ tpc' = IF SubmitOutcome(r) = NotReturned THEN "poll" ELSE "ret"
              /\ task_id' = IF SubmitOutcome(r) = NotReturned THEN r.task_id ELSE task_id
    /\ UNCHANGED <<targs, attempt, polls, sleeps, lastPoll>>

\* Line 157, `for attempt in range(max_polls)`: whether the loop has
\* another iteration after `done` iterations.
InRange_Inclusive(done) == done <= max_polls

InRange(done) == done < max_polls

\* One iteration of `for attempt in range(max_polls)`: sleep, request,
\* then return or continue.
get_transcription_poll(R) ==
    /\ tpc = "poll"
    /\ InRange(attempt)
    /\ \E r \in R :
         /\ sleeps' = sleeps + 1
         /\ polls' = polls + 1
         /\ attempt' = attempt + 1
         /\ lastPoll' = r
         /\ tret' = PollOutcome(r, task_id)
         /\ tpc' = IF PollOutcome(r, task_id) = NotReturned THEN "poll" ELSE "ret"
    /\ UNCHANGED <<targs, task_id, submits, lastSubmit>>

\* range(max_polls) is used up.
get_transcription_exhausted ==
    /\ tpc = "poll"
    /\ ~InRange(attempt)
    /\ tret' = LoopExhausted
    /\ tpc' = "ret"
    /\ UNCHANGED <<targs, task_id, attempt, submits, polls, sleeps, lastSubmit, lastPoll>>

\* The frame of a call that has not started.
CallFrame(download_url, base_url) ==
    /\ tpc' = "call"
    /\ targs' = [download_url |-> download_url, whisperx_base_url |-> base_url]
    /\ task_id' = None
    /\ attempt' = 0
    /\ tret' = NotReturned
    /\ submits' = 0
    /\ polls' = 0
    /\ sleeps' = 0
    /\ lastSubmit' = NoExchange
    /\ lastPoll' = NoExchange

(* ------------------------------ videos -------------------------------- *)

\* A message slot that holds None.
NoMessage == <<>>

\* A transcript slot that holds None.
NoneData == Raised("None")

\* A date string as the scraper gives it: its form ("Z": ISO-8601 with a Z
\* suffix, "offset": with an explicit offset, "naive": without timezone,
\* "bad": not ISO-8601, "empty": "", "absent": no date key), its age in
\* hours at the time of the run and its rank in string order.
Date(form, age, lex) == [form |-> form, age |-> age, lex |-> lex]

\* A video dict: the scraped fields, and the fields execute adds.  `keys`
\* is the set of added keys the dict holds; a field whose key is not in it
\* reads as None (False for download_cached).  url is None when the
\* scraped item has none.
Video(url, members, date) ==
    [url |-> url, isMembersOnly |-> members, date |-> date,
     keys |-> {},
     download_status |-> None, download_message |-> NoMessage,
     download_url |-> None, download_cached |-> FALSE,
     transcription_status |-> None, transcript |-> NoneData,
     transcription_message |-> NoMessage]

DownloadKeys == {"download_status", "download_message", "download_url", "download_cached"}

TranscriptionKeys == {"transcription_status", "transcript", "transcription_message"}

\* The videos the scraper can return: a recent one, one with an explicit
\* offset that is exactly 24 hours old, one without a url, a members-only
\* one, one without a date and one whose date has no timezone.
Catalogue ==
    {Video("v1", FALSE, Date("Z", 1, 30)),
     Video("v2", FALSE, Date("offset", 24, 10)),
     Video(None, FALSE, Date("Z", 2, 20)),
     Video("v3", TRUE, Date("Z", 3, 15)),
     Video("v4", FALSE, Date("absent", 0, 0)),
     Video("v5", FALSE, Date("naive", 1, 25))}

VideoUrls == {"v1", "v2", "v3", "v4", "v5"}

RawLists ==
    {s \in UNION {[1..n -> Catalogue] : n \in 0..MaxVideos} :
        \A a, b \in DOMAIN s : a # b => s[a] # s[b]}

\* list(...iterate_items()) of the scraper run, or an exception of the call.
ScrapeOutcomes ==
    {[raised |-> FALSE, items |-> s] : s \in RawLists}
      \cup {[raised |-> TRUE, items |-> <<>>]}

RECURSIVE SelectSeq2(_, _)
\* [v for v in s if Keep(v)], Keep given as the set of kept records.
SelectSeq2(s, keep) ==
    IF s = <<>> THEN <<>>
    ELSE IF Head(s) \in keep
         THEN <<Head(s)>> \o SelectSeq2(Tail(s), keep)
         ELSE SelectSeq2(Tail(s), keep)

\* [v for v in all_videos_raw if not v.get("isMembersOnly", False)], and
\* the mutation without the filter.
NotMembersOnly_All(s) == s

NotMembersOnly(s) == SelectSeq2(s, {v \in Catalogue : ~v.isMembersOnly})

\* The time filter of lines 309-323 on one video: "keep", "drop" (old, no
\* date, or ValueError from fromisoformat) or "raise" (an aware minus a
\* naive datetime raises TypeError, which line 318 does not catch).
TimeFilterOne(v, time_filter) ==
    CASE v.date.form \in {"absent", "empty"} -> "drop"
      [] v.date.form = "bad" -> "drop"
      [] v.date.form = "naive" -> "raise"
      [] OTHER -> IF v.date.age < time_filter THEN "keep" ELSE "drop"

TimeFilter(s, time_filter) ==
    SelectSeq2(s, {v \in Catalogue : TimeFilterOne(v, time_filter) = "keep"})

\* x.get("date", "") as a sort key: the rank of the string, "" lowest.
SortKey(v) == IF v.date.form \in {"absent", "empty"} THEN 0 ELSE v.date.lex

RECURSIVE InsertDesc(_, _)
InsertDesc(sorted, v) ==
    IF sorted = <<>> THEN <<v>>
    ELSE IF SortKey(Head(sorted)) > SortKey(v)
         THEN <<Head(sorted)>> \o InsertDesc(Tail(sorted), v)
         ELSE <<v>> \o sorted

RECURSIVE SortNewestFirst(_)
\* list.sort(key=..., reverse=True): descending and stable.
SortNewestFirst(s) ==
    IF s = <<>> THEN <<>> ELSE InsertDesc(SortNewestFirst(Tail(s)), Head(s))

(* --------------------------- the link cache --------------------------- *)

Resolutions == {"360"}

\* Line 44: the resolutions the schema accepts.
valid_resolutions == {"2160", "1440", "1080", "720", "480", "360", "240", "144"}

\* Lines 42-47: the validator of download_resolution returns the value or
\* raises ValueError.
validate_download_resolution(v) ==
    IF v \notin valid_resolutions THEN "ValueError" ELSE v

\* The resolutions of the calls of the cache on their own, and the values
\* of download_resolution a caller may put into the configuration.
CacheResolutions == {"360", "720"}
ConfigResolutions == {"360", "999"}

\* Lines 69 and 81, f"youtube_link_map_{resolution}"; the mutation uses one
\* record for every resolution.
MAP_KEY_Shared(resolution) == <<"youtube_link_map_", "360">>

MAP_KEY(resolution) == <<"youtube_link_map_", resolution>>

\* The records of the store: one link map for each resolution; a record
\* that does not exist reads as the empty map (lines 71 and 84).
StoreKeys ==
    {<<"youtube_link_map_", r>> :
        r \in Resolutions \cup CacheResolutions \cup ConfigResolutions}

\* A freshly resolved link, and a link cached by an earlier run.
JobUrls == {"d1"}
CachedUrls == {"c1"}

\* _get_link_from_store: the cached link, or None on a miss and when the
\* store cannot be read (ok = FALSE).
get_link_from_store(store, ok, youtube_url, resolution) ==
    IF ok THEN store[MAP_KEY(resolution)][youtube_url] ELSE None

\* Line 85, link_map[youtube_url] = download_url, with its mutation.
Upsert_KeepFirst(link_map, youtube_url, download_url) ==
    IF link_map[youtube_url] # None THEN link_map
    ELSE [link_map EXCEPT ![youtube_url] = download_url]

Upsert(link_map, youtube_url, download_url) ==
    [link_map EXCEPT ![youtube_url] = download_url]

\* Line 86, set_record(MAP_KEY, link_map): the record is replaced as a
\* whole.  The mutation merges the entries into the record instead.
SetRecord_Merge(store, key, link_map) ==
    [store EXCEPT ![key] =
        [u \in DOMAIN @ |-> IF link_map[u] # None THEN link_map[u] ELSE @[u]]]

SetRecord(store, key, link_map) == [store EXCEPT ![key] = link_map]

\* _save_link_to_store run without interference: the store afterwards;
\* get_record or set_record may fail (ok = FALSE), and then nothing is
\* written.
save_link_to_store(store, ok, youtube_url, download_url, resolution) ==
    IF ok
    THEN SetRecord(store, MAP_KEY(resolution),
                   Upsert(store[MAP_KEY(resolution)], youtube_url, download_url))
    ELSE store

\* Runs of the widget that share the store, and one run's call of
\* _save_link_to_store: idle, or between its get_record (line 83) and its
\* set_record (line 86) with the map it read; ret is what its last call
\* returned, calls how many it has completed.
Runs == {"A", "B"}

NoMap == [u \in VideoUrls |-> None]

SaverIdle == [pc |-> "idle", youtube_url |-> None, download_url |-> None,
              resolution |-> None, link_map |-> NoMap, ret |-> "none", calls |-> 0]

\* The last set_record that succeeded, and the last _get_link_from_store
\* with the write that preceded it.
NoWrite == [run |-> None, youtube_url |-> None, download_url |-> None,
            resolution |-> None]

NoGet == [youtube_url |-> None, resolution |-> None, ok |-> FALSE,
          value |-> None, since |-> NoWrite]

CachelogZero == [lastWrite |-> NoWrite, lastGet |-> NoGet]

\* The HEAD probe: a status code, or 0 for an exception of requests.head.
ProbeOutcomes == {0, 199, 200, 399, 400}

\* What requests.head does in a call of _is_url_valid on its own: a response
\* with any status code, or an exception: one of requests (a timeout, a
\* connection error, a malformed url) or any other.
HeadExceptions == {"Timeout", "ConnectionError", "MissingSchema", "Exception"}

HeadOutcomes ==
    [kind : {"response"}, code : 100..599] \cup [kind : HeadExceptions, code : {0}]

\* The outcome as the probe argument of is_url_valid.
HeadProbe(o) == IF o.kind = "response" THEN o.code ELSE 0

\* The urls _is_url_valid is called with on its own.
ProbedUrls == {None, "", "c1", "d1"}

ProberIdle == [pc |-> "idle", url |-> None, outcome |-> [kind |-> "none", code |-> 0],
               ret |-> "none", heads |-> 0]

\* _is_url_valid
is_url_valid_only200(url, probe) ==
    IF Falsy(url) THEN FALSE
    ELSE IF probe = 0 THEN FALSE
    ELSE probe = 200

is_url_valid_upto400(url, probe) ==
    IF Falsy(url) THEN FALSE
    ELSE IF probe = 0 THEN FALSE
    ELSE 200 <= probe /\ probe <= 400

is_url_valid(url, probe) ==
    IF Falsy(url) THEN FALSE
    ELSE IF probe = 0 THEN FALSE
    ELSE 200 <= probe /\ probe < 400

(* ------------------------------ execute ------------------------------- *)

\* The widget's output; error is NoMessage for None.
Result(videos, fcount, fetched, error) ==
    [kind |-> "returned", videos |-> videos, filtered_count |-> fcount,
     total_fetched |-> fetched, error |-> error]

NoResult == [kind |-> "none", videos |-> <<>>, filtered_count |-> 0,
             total_fetched |-> 0, error |-> NoMessage]

ErrorResult(message) == Result(<<>>, 0, 0, message)

\* The calls of a run before its download loop: get_or_create of the
\* store, the scraper call, the items it gave and how lines 284-340 ended.
RunlogZero == [store_calls |-> 0, scrape_calls |-> 0, raw |-> {}, fetch |-> "none"]

\* Network calls made for one video.
NetZero == [reads |-> 0, probes |-> 0, jobs |-> 0, writes |-> 0, submits |-> 0]

\* What the download policy saw for one video: the branch it took ("cache":
\* a hit that the probe found valid, "stale": a hit it found invalid,
\* "miss", "forced", "missing": no url), the link the cache gave, the job's
\* status code the probe got (-1: no probe, 0: an exception), the job's
\* outcome (None: not called) and whether the write-through succeeded;
\* entry_before is the store's entry for the video when its turn began.
TrailZero == [path |-> "none", entry_before |-> None, cached_url |-> None,
              probe |-> -1, job |-> None, saved |-> FALSE]

\* Outcomes of the download actor call: a resolved link, a dataset without
\* an item, an item without a (non-empty) downloadUrl, or an exception.
JobOutcomes == JobUrls \cup {"<no item>", "<no downloadUrl>", "<raised>"}

IdleFrame ==
    /\ tpc' = "idle"
    /\ targs' = [download_url |-> None, whisperx_base_url |-> None]
    /\ task_id' = None
    /\ attempt' = 0
    /\ tret' = NotReturned
    /\ submits' = 0
    /\ polls' = 0
    /\ sleeps' = 0
    /\ lastSubmit' = NoExchange
    /\ lastPoll' = NoExchange

\* Lines 350-353, with the mutation that leaves the video pending.
MissingUrlFields_Pending(v) ==
    [v EXCEPT !.keys = @ \cup {"download_status"}, !.download_status = "pending"]

MissingUrlFields(v) ==
    [v EXCEPT !.keys = @ \cup DownloadKeys,
              !.download_status = "error",
              !.download_message = <<"Missing video URL">>,
              !.download_url = None,
              !.download_cached = FALSE]

\* Lines 368-371.
CachedSuccessFields(v, cached_url) ==
    [v EXCEPT !.keys = @ \cup DownloadKeys,
              !.download_status = "success",
              !.download_message = <<"Successfully retrieved cached download link.">>,
              !.download_url = cached_url,
              !.download_cached = TRUE]

\* Line 356.
PendingFields(v) ==
    [v EXCEPT !.keys = @ \cup {"download_status"}, !.download_status = "pending"]

\* Lines 398-401.
FreshSuccessFields(v, download_url) ==
    [v EXCEPT !.keys = @ \cup DownloadKeys,
              !.download_status = "success",
              !.download_message = <<"Successfully retrieved download link via Actor.">>,
              !.download_url = download_url,
              !.download_cached = FALSE]

\* Lines 432-439, with the mutation that leaves the video pending.
NoLinkFields_Pending(v) == PendingFields(v)

NoLinkFields(v) ==
    [v EXCEPT !.keys = @ \cup DownloadKeys \cup TranscriptionKeys,
              !.download_status = "error",
              !.download_message = <<"Could not find download link via Actor.">>,
              !.download_url = None,
              !.download_cached = FALSE,
              !.transcription_status = "skipped",
              !.transcript = NoneData,
              !.transcription_message = <<"Skipped due to download failure.">>]

\* The mutation of the handler below keeps the link that line 400 stored.
DownloadExceptFields_KeepUrl(v, exc) ==
    [v EXCEPT !.keys = @ \cup DownloadKeys \cup TranscriptionKeys,
              !.download_status = "error",
              !.download_message = <<"Error during download Actor call: ">> \o Repr(exc),
              !.download_cached = FALSE,
              !.transcription_status = "skipped",
              !.transcript = NoneData,
              !.transcription_message = <<"Skipped due to download error.">>]

\* Lines 441-450: the handler of every exception raised inside the try
\* block that starts at line 377.
DownloadExceptFields(v, exc) ==
    [v EXCEPT !.keys = @ \cup DownloadKeys \cup TranscriptionKeys,
              !.download_status = "error",
              !.download_message = <<"Error during download Actor call: ">> \o Repr(exc),
              !.download_url = None,
              !.download_cached = FALSE,
              !.transcription_status = "skipped",
              !.transcript = NoneData,
              !.transcription_message = <<"Skipped due to download error.">>]

\* Lines 396-403: the fields of a resolved video after the write-through,
\* whose return value (saved) line 403 discards.  In the mutation a failed
\* save reaches the handler of line 441.
WriteThroughFields_SaveRaises(v, download_url, saved) ==
    IF saved THEN FreshSuccessFields(v, download_url)
    ELSE DownloadExceptFields(v, "Exception")

WriteThroughFields(v, download_url, saved) == FreshSuccessFields(v, download_url)

\* Lines 409-417 and 461-469: the fields set from a returned pair.
TranscribedFields(v, ret, okMessage) ==
    [v EXCEPT !.keys = @ \cup TranscriptionKeys,
              !.transcription_status = ret.status,
              !.transcript = IF ret.status = "success" THEN ret.data ELSE NoneData,
              !.transcription_message =
                  IF ret.status = "success" THEN okMessage ELSE ret.message]

\* Lines 420-427 and 472-479.
SkippedFields(v, lastMessage) ==
    [v EXCEPT !.keys = @ \cup TranscriptionKeys,
              !.transcription_status = "skipped",
              !.transcript = NoneData,
              !.transcription_message =
                  IF ~transcribe_videos THEN <<"Transcription was not requested.">>
                  ELSE IF Falsy(whisperx_base_url)
                       THEN <<"Transcription skipped: WHISPERX_MODEL_URL not set.">>
                       ELSE lastMessage]

\* `transcription_status, transcription_result = ...`: unpacking None
\* raises TypeError.
UnpackRaises(ret) == ret.kind = "None"

\* The mutation returns at the end of the first loop, without the loop of
\* line 453.
NextDownload_NoSecondLoop ==
    IF idx < Len(filtered_videos)
    THEN /\ pc' = "download"
         /\ idx' = idx + 1
    ELSE /\ pc' = "return"
         /\ idx' = 0

\* The next iteration of `for video in filtered_videos` (line 347), or the
\* loop at line 453 when the list is used up.
NextDownload ==
    IF idx < Len(filtered_videos)
    THEN /\ pc' = "download"
         /\ idx' = idx + 1
    ELSE /\ pc' = "cached"
         /\ idx' = 1

\* The next iteration of the loop at line 453, or the return at line 482.
NextCached ==
    IF idx < Len(filtered_videos)
    THEN /\ pc' = "cached"
         /\ idx' = idx + 1
    ELSE /\ pc' = "return"
         /\ idx' = 0

\* Lines 257-267: transcribe_videos after the check of WHISPERX_MODEL_URL.
TranscribeAfterCheck_Keep(requested, base_url) == requested

TranscribeAfterCheck(requested, base_url) == requested /\ ~Falsy(base_url)

\* Lines 239-267: the configuration, the credential, the service address.
execute_start ==
    /\ pc = "start"
    /\ IF Falsy(environ.APIFY_API_KEY)
       THEN \* the message of line 253, in English
            /\ result' = ErrorResult(<<"APIFY_API_KEY missing">>)
            /\ pc' = "done"
            /\ UNCHANGED <<transcribe_videos, whisperx_base_url>>
       ELSE /\ whisperx_base_url' =
                  IF config.transcribe_videos THEN environ.WHISPERX_MODEL_URL ELSE None
            /\ transcribe_videos' =
                  TranscribeAfterCheck(config.transcribe_videos,
                                       environ.WHISPERX_MODEL_URL)
            /\ pc' = "store"
            /\ UNCHANGED result
    /\ UNCHANGED <<config, environ, runlog, savers, cachelog, prober,
                   store_id, kv, filtered_videos, total_fetched,
                   filtered_count, idx, net, trail, tvars>>

\* Lines 269-279: the cache store, only when downloading.
execute_store ==
    /\ pc = "store"
    /\ IF config.download_videos
       THEN /\ runlog' = [runlog EXCEPT !.store_calls = @ + 1]
            /\ \E ok \in BOOLEAN :
                 IF ok
                 THEN /\ store_id' = "store"
                      /\ pc' = "fetch"
                      /\ UNCHANGED result
                 ELSE /\ result' = ErrorResult(<<"Failed to initialize download cache: ">>
                                                 \o Repr("Exception"))
                      /\ pc' = "done"
                      /\ UNCHANGED store_id
       ELSE /\ pc' = "fetch"
            /\ UNCHANGED <<store_id, result, runlog>>
    /\ UNCHANGED <<config, environ, savers, cachelog, prober, transcribe_videos,
                   whisperx_base_url, kv,
                   filtered_videos, total_fetched, filtered_count, idx, net, trail, tvars>>

\* Whether lines 309-326 raise: the time filter on a naive date.
FilterRaises(videos_data) ==
    /\ config.time_filter > 0
    /\ \E k \in 1..Len(videos_data) :
         TimeFilterOne(videos_data[k], config.time_filter) = "raise"

\* Lines 299-326.
FilteredVideos(videos_data) ==
    SortNewestFirst(IF config.time_filter > 0
                    THEN TimeFilter(videos_data, config.time_filter)
                    ELSE videos_data)

\* Line 343: `if download_videos and filtered_videos`.
DownloadWanted_Always(videos) == videos # <<>>

DownloadWanted(videos) == config.download_videos /\ videos # <<>>

\* Lines 299-304: total_fetched is counted after the members-only filter;
\* the mutation counts every item of the scraper.
TotalFetched_Raw(all_videos_raw) == Len(all_videos_raw)

TotalFetched(all_videos_raw) == Len(NotMembersOnly(all_videos_raw))

\* Lines 284-340: the scraper call, the filters, the sort.
execute_fetch ==
    /\ pc = "fetch"
    /\ \E scrape \in ScrapeOutcomes :
         LET videos_data == NotMembersOnly(scrape.items)
         IN  /\ runlog' = [runlog EXCEPT
                   !.scrape_calls = @ + 1,
                   !.raw = {scrape.items[k] : k \in 1..Len(scrape.items)},
                   !.fetch = IF scrape.raised THEN "scrape raised"
                             ELSE IF FilterRaises(videos_data) THEN "filter raised"
                             ELSE "ok"]
             /\ IF scrape.raised \/ FilterRaises(videos_data)
                THEN /\ result' = ErrorResult(<<"Error fetching channel videos: ">>
                                                \o Repr(IF scrape.raised THEN "Exception"
                                                        ELSE "TypeError"))
                     /\ pc' = "done"
                     /\ UNCHANGED <<filtered_videos, total_fetched, filtered_count, idx>>
                ELSE /\ filtered_videos' = FilteredVideos(videos_data)
                     /\ total_fetched' = TotalFetched(scrape.items)
                     /\ filtered_count' = Len(FilteredVideos(videos_data))
                     /\ IF DownloadWanted(FilteredVideos(videos_data))
                        THEN /\ pc' = "download"
                             /\ idx' = 1
                        ELSE /\ pc' = "return"
                             /\ idx' = 0
                     /\ UNCHANGED result
    /\ UNCHANGED <<config, environ, savers, cachelog, prober, transcribe_videos,
                   whisperx_base_url, store_id, kv, net, trail, tvars>>

\* Lines 348-354: a video without a url.
execute_missing_url ==
    /\ pc = "download"
    /\ Falsy(filtered_videos[idx].url)
    /\ filtered_videos' = [filtered_videos EXCEPT ![idx] = MissingUrlFields(@)]
    /\ trail' = [trail EXCEPT ![idx].path = "missing"]
    /\ NextDownload
    /\ UNCHANGED <<config, environ, runlog, savers, cachelog, prober,
                   transcribe_videos, whisperx_base_url, store_id, kv,
                   total_fetched, filtered_count, result, net, tvars>>

\* The store's entry for a video under the run's resolution.
EntryOf(store, youtube_url) == store[MAP_KEY(config.download_resolution)][youtube_url]

\* Whether the cache decides the video (line 366).
CacheHitValid(cached_url, probe) ==
    /\ ~Falsy(cached_url)
    /\ is_url_valid(cached_url, probe)

\* Lines 356-374 without force_refresh_cache: the cache read, the probe of
\* a hit, and the cached success or the way on to the actor.
execute_check_cache ==
    /\ pc = "download"
    /\ ~Falsy(filtered_videos[idx].url)
    /\ ~config.force_refresh_cache
    /\ \E readOk \in BOOLEAN :
         LET video_url == filtered_videos[idx].url
             cached_url == get_link_from_store(kv, readOk, video_url,
                                               config.download_resolution)
         IN  \E probe \in (IF Falsy(cached_url) THEN {-1} ELSE ProbeOutcomes) :
               /\ net' = [net EXCEPT ![idx].reads = @ + 1,
                                     ![idx].probes = @ + (IF probe = -1 THEN 0 ELSE 1)]
               /\ IF CacheHitValid(cached_url, probe)
                  THEN /\ filtered_videos' =
                            [filtered_videos EXCEPT ![idx] = CachedSuccessFields(@, cached_url)]
                       /\ trail' = [trail EXCEPT ![idx].path = "cache",
                                                 ![idx].entry_before = EntryOf(kv, video_url),
                                                 ![idx].cached_url = cached_url,
                                                 ![idx].probe = probe]
                       /\ NextDownload
                  ELSE /\ filtered_videos' =
                            [filtered_videos EXCEPT ![idx] = PendingFields(@)]
                       /\ trail' = [trail EXCEPT ![idx].path =
                                                    IF Falsy(cached_url) THEN "miss" ELSE "stale",
                                                 ![idx].entry_before = EntryOf(kv, video_url),
                                                 ![idx].cached_url = cached_url,
                                                 ![idx].probe = probe]
                       /\ pc' = "fresh"
                       /\ UNCHANGED idx
    /\ UNCHANGED <<config, environ, runlog, savers, cachelog, prober,
                   transcribe_videos, whisperx_base_url, store_id, kv,
                   total_fetched, filtered_count, result, tvars>>

\* Lines 356-361 with force_refresh_cache: the cache is not read.
execute_force_refresh ==
    /\ pc = "download"
    /\ ~Falsy(filtered_videos[idx].url)
    /\ config.force_refresh_cache
    /\ filtered_videos' = [filtered_videos EXCEPT ![idx] = PendingFields(@)]
    /\ trail' = [trail EXCEPT ![idx].path = "forced",
                              ![idx].entry_before = EntryOf(kv, filtered_videos[idx].url)]
    /\ pc' = "fresh"
    /\ UNCHANGED <<config, environ, runlog, savers, cachelog, prober,
                   transcribe_videos, whisperx_base_url, store_id, kv,
                   total_fetched, filtered_count, idx, result, net, tvars>>

\* Line 406 and line 455.
TranscriptionWanted == transcribe_videos /\ ~Falsy(whisperx_base_url)

\* Lines 377-450 up to the call of _get_transcription: the actor call, the
\* write-through and the fields of the video.
execute_fetch_fresh ==
    /\ pc = "fresh"
    /\ \E job \in JobOutcomes :
       \E writeOk \in (IF job \in JobUrls THEN BOOLEAN ELSE {FALSE}) :
         LET video_url == filtered_videos[idx].url
         IN  /\ trail' = [trail EXCEPT ![idx].job = IF job = "<raised>" THEN job
                                                    ELSE IF job \in JobUrls THEN job
                                                    ELSE "<no link>",
                                      ![idx].saved = writeOk]
             /\ net' = [net EXCEPT ![idx].jobs = @ + 1,
                                   ![idx].writes = @ + (IF job \in JobUrls THEN 1 ELSE 0)]
             /\ CASE job = "<raised>" ->
                       /\ filtered_videos' = [filtered_videos EXCEPT
                                                ![idx] = DownloadExceptFields(@, "Exception")]
                       /\ NextDownload
                       /\ UNCHANGED <<kv, tvars>>
                  [] job \in {"<no item>", "<no downloadUrl>"} ->
                       /\ filtered_videos' = [filtered_videos EXCEPT ![idx] = NoLinkFields(@)]
                       /\ NextDownload
                       /\ UNCHANGED <<kv, tvars>>
                  [] OTHER ->
                       /\ kv' = save_link_to_store(kv, writeOk, video_url, job,
                                                   config.download_resolution)
                       /\ IF TranscriptionWanted
                          THEN /\ filtered_videos' = [filtered_videos EXCEPT
                                                        ![idx] = WriteThroughFields(@, job, writeOk)]
                               /\ CallFrame(job, whisperx_base_url)
                               /\ pc' = "transcribe_fresh"
                               /\ UNCHANGED idx
                          ELSE /\ filtered_videos' = [filtered_videos EXCEPT
                                    ![idx] = SkippedFields(WriteThroughFields(@, job, writeOk),
                                        <<"Transcription skipped due to missing download URL.">>)]
                               /\ NextDownload
                               /\ UNCHANGED tvars
    /\ UNCHANGED <<config, environ, runlog, savers, cachelog, prober,
                   transcribe_videos, whisperx_base_url, store_id,
                   total_fetched, filtered_count, result>>

\* Lines 408-417, and 441-450 when the unpacking at line 408 raises inside
\* the try block.
execute_fresh_transcribed ==
    /\ pc = "transcribe_fresh"
    /\ tpc = "ret"
    /\ filtered_videos' = [filtered_videos EXCEPT ![idx] =
           IF UnpackRaises(tret)
           THEN DownloadExceptFields(@, "TypeError")
           ELSE TranscribedFields(@, tret, <<"Transcription successful.">>)]
    /\ net' = [net EXCEPT ![idx].submits = @ + submits]
    /\ NextDownload
    /\ IdleFrame
    /\ UNCHANGED <<config, environ, runlog, savers, cachelog, prober,
                   transcribe_videos, whisperx_base_url, store_id, kv,
                   total_fetched, filtered_count, result, trail>>

\* Line 454.
IsCachedSuccess(v) ==
    /\ "download_status" \in v.keys
    /\ v.download_status = "success"
    /\ "download_cached" \in v.keys
    /\ v.download_cached = TRUE

\* Lines 453-479 for one video, up to the call of _get_transcription.
execute_cached_step ==
    /\ pc = "cached"
    /\ LET v == filtered_videos[idx]
       IN  IF IsCachedSuccess(v) /\ TranscriptionWanted /\ ~Falsy(v.download_url)
           THEN /\ CallFrame(v.download_url, whisperx_base_url)
                /\ pc' = "transcribe_cached"
                /\ UNCHANGED <<idx, filtered_videos>>
           ELSE /\ filtered_videos' =
                      IF IsCachedSuccess(v) /\ "transcription_status" \notin v.keys
                      THEN [filtered_videos EXCEPT ![idx] =
                              SkippedFields(@, <<"Transcription skipped (cached video).">>)]
                      ELSE filtered_videos
                /\ NextCached
                /\ UNCHANGED tvars
    /\ UNCHANGED <<config, environ, runlog, savers, cachelog, prober,
                   transcribe_videos, whisperx_base_url, store_id, kv,
                   total_fetched, filtered_count, result, net, trail>>

\* Lines 460-469; no handler encloses the unpacking at line 460, so its
\* TypeError leaves execute.
execute_cached_transcribed ==
    /\ pc = "transcribe_cached"
    /\ tpc = "ret"
    /\ net' = [net EXCEPT ![idx].submits = @ + submits]
    /\ IF UnpackRaises(tret)
       THEN /\ pc' = "raised"
            /\ UNCHANGED <<filtered_videos, idx>>
       ELSE /\ filtered_videos' = [filtered_videos EXCEPT ![idx] =
                  TranscribedFields(@, tret, <<"Transcription successful (for cached video).">>)]
            /\ NextCached
    /\ IdleFrame
    /\ UNCHANGED <<config, environ, runlog, savers, cachelog, prober,
                   transcribe_videos, whisperx_base_url, store_id, kv,
                   total_fetched, filtered_count, result, trail>>

\* Lines 482-487.
execute_return ==
    /\ pc = "return"
    /\ result' = Result(filtered_videos, filtered_count, total_fetched, NoMessage)
    /\ pc' = "done"
    /\ UNCHANGED <<config, environ, runlog, savers, cachelog, prober,
                   transcribe_videos, whisperx_base_url, store_id, kv,
                   filtered_videos, total_fetched, filtered_count, idx, net, trail, tvars>>

\* The answers of the transcription service that a run of execute is
\* explored with: one of each way a call can end or go on.
RunSubmitResponses ==
    {Http(200, "object", "t1", None, None), Http(500, "invalid", None, None, None)}

RunPollResponses ==
    {Http(200, "object", None, "SUCCESS", None),
     Http(200, "object", None, "FAILED", "oom"),
     Http(202, "invalid", None, None, None)}

\* _get_transcription as execute calls it.
execute_submit ==
    /\ pc \in {"transcribe_fresh", "transcribe_cached"}
    /\ get_transcription_submit(RunSubmitResponses)
    /\ UNCHANGED evars

execute_poll ==
    /\ pc \in {"transcribe_fresh", "transcribe_cached"}
    /\ get_transcription_poll(RunPollResponses)
    /\ UNCHANGED evars

execute_poll_exhausted ==
    /\ pc \in {"transcribe_fresh", "transcribe_cached"}
    /\ get_transcription_exhausted
    /\ UNCHANGED evars

(* --------------------------- specifications --------------------------- *)

TimeFilters == {0, 24}

Configs ==
    [download_videos : BOOLEAN, force_refresh_cache : BOOLEAN,
     transcribe_videos : BOOLEAN, time_filter : TimeFilters,
     download_resolution : Resolutions]

Environs ==
    [APIFY_API_KEY : {None, "key"}, WHISPERX_MODEL_URL : {None, "http://wx"}]

\* The store before the run: what earlier runs cached.
Stores ==
    {[k \in StoreKeys |->
        [u \in VideoUrls |-> IF k = MAP_KEY("360") /\ u \in DOMAIN m
                             THEN m[u] ELSE None]] :
     m \in [{"v1", "v2"} -> CachedUrls \cup {None}]}

IdleInit ==
    /\ tpc = "idle"
    /\ targs = [download_url |-> None, whisperx_base_url |-> None]
    /\ task_id = None
    /\ attempt = 0
    /\ tret = NotReturned
    /\ submits = 0
    /\ polls = 0
    /\ sleeps = 0
    /\ lastSubmit = NoExchange
    /\ lastPoll = NoExchange

\* A run of execute.
Init ==
    /\ pc = "start"
    /\ config \in Configs
    /\ environ \in Environs
    /\ kv \in Stores
    /\ transcribe_videos = config.transcribe_videos
    /\ whisperx_base_url = None
    /\ store_id = None
    /\ filtered_videos = <<>>
    /\ total_fetched = 0
    /\ filtered_count = 0
    /\ idx = 0
    /\ result = NoResult
    /\ net = [k \in 1..MaxVideos |-> NetZero]
    /\ trail = [k \in 1..MaxVideos |-> TrailZero]
    /\ runlog = RunlogZero
    /\ savers = [p \in Runs |-> SaverIdle]
    /\ cachelog = CachelogZero
    /\ prober = ProberIdle
    /\ IdleInit

Next ==
    \/ execute_start
    \/ execute_store
    \/ execute_fetch
    \/ execute_missing_url
    \/ execute_check_cache
    \/ execute_force_refresh
    \/ execute_fetch_fresh
    \/ execute_submit
    \/ execute_poll
    \/ execute_poll_exhausted
    \/ execute_fresh_transcribed
    \/ execute_cached_step
    \/ execute_cached_transcribed
    \/ execute_return

Spec == Init /\ [][Next]_vars

\* A run from the configuration on: the caller's download_resolution is any
\* string, and the widget is entered through its schema or execute is
\* called with the configuration as it is.
RConfigs ==
    [download_videos : {TRUE}, force_refresh_cache : BOOLEAN,
     transcribe_videos : BOOLEAN, time_filter : {0},
     download_resolution : ConfigResolutions]

RInit ==
    /\ pc = "config"
    /\ config \in RConfigs
    /\ environ = [APIFY_API_KEY |-> "key", WHISPERX_MODEL_URL |-> "http://wx"]
    /\ kv \in {st \in Stores : st[MAP_KEY("360")]["v2"] = None}
    /\ transcribe_videos = config.transcribe_videos
    /\ whisperx_base_url = None
    /\ store_id = None
    /\ filtered_videos = <<>>
    /\ total_fetched = 0
    /\ filtered_count = 0
    /\ idx = 0
    /\ result = NoResult
    /\ net = [k \in 1..MaxVideos |-> NetZero]
    /\ trail = [k \in 1..MaxVideos |-> TrailZero]
    /\ runlog = RunlogZero
    /\ savers = [p \in Runs |-> SaverIdle]
    /\ cachelog = CachelogZero
    /\ prober = ProberIdle
    /\ IdleInit

\* The widget called as in run_test.py: InputsSchema is built from the
\* configuration, its validator runs, and execute is entered when it
\* accepts the value.
schema_entry ==
    /\ pc = "config"
    /\ pc' = IF validate_download_resolution(config.download_resolution) = "ValueError"
             THEN "rejected" ELSE "start"
    /\ UNCHANGED <<config, environ, runlog, savers, cachelog, prober,
                   transcribe_videos, whisperx_base_url, store_id, kv,
                   filtered_videos, total_fetched, filtered_count, idx, result,
                   net, trail, tvars>>

\* Line 537 of the module's own harness: widget.execute({}, test_config),
\* with no schema in between.
direct_entry ==
    /\ pc = "config"
    /\ pc' = "start"
    /\ UNCHANGED <<config, environ, runlog, savers, cachelog, prober,
                   transcribe_videos, whisperx_base_url, store_id, kv,
                   filtered_videos, total_fetched, filtered_count, idx, result,
                   net, trail, tvars>>

RNext ==
    \/ schema_entry
    \/ direct_entry
    \/ Next

SpecR == RInit /\ [][RNext]_vars

\* A call of _get_transcription on its own.
TInit ==
    /\ pc = "direct"
    /\ config = [download_videos |-> TRUE, force_refresh_cache |-> FALSE,
                 transcribe_videos |-> TRUE, time_filter |-> 0,
                 download_resolution |-> "360"]
    /\ environ = [APIFY_API_KEY |-> "key", WHISPERX_MODEL_URL |-> None]
    /\ kv \in {st \in Stores : \A u \in VideoUrls : st[MAP_KEY("360")][u] = None}
    /\ transcribe_videos = TRUE
    /\ whisperx_base_url = None
    /\ store_id = None
    /\ filtered_videos = <<>>
    /\ total_fetched = 0
    /\ filtered_count = 0
    /\ idx = 0
    /\ result = NoResult
    /\ net = [k \in 1..MaxVideos |-> NetZero]
    /\ trail = [k \in 1..MaxVideos |-> TrailZero]
    /\ runlog = RunlogZero
    /\ savers = [p \in Runs |-> SaverIdle]
    /\ cachelog = CachelogZero
    /\ prober = ProberIdle
    /\ tpc = "call"
    /\ targs \in [download_url : JobUrls, whisperx_base_url : {None, "", "http://wx"}]
    /\ task_id = None
    /\ attempt = 0
    /\ tret = NotReturned
    /\ submits = 0
    /\ polls = 0
    /\ sleeps = 0
    /\ lastSubmit = NoExchange
    /\ lastPoll = NoExchange

get_transcription_call ==
    /\ pc = "direct"
    /\ get_transcription_submit(SubmitResponses)
    /\ UNCHANGED evars

get_transcription_iteration ==
    /\ pc = "direct"
    /\ get_transcription_poll(PollResponses)
    /\ UNCHANGED evars

get_transcription_loop_end ==
    /\ pc = "direct"
    /\ get_transcription_exhausted
    /\ UNCHANGED evars

TNext ==
    \/ get_transcription_call
    \/ get_transcription_iteration
    \/ get_transcription_loop_end

SpecT == TInit /\ [][TNext]_vars

\* The call runs on: every request has a timeout (lines 136 and 167:
\* timeout=30) and the sleep is finite, so a step that can be taken is
\* taken.
SpecTF == TInit /\ [][TNext]_vars /\ WF_vars(TNext)

\* Calls of the link cache by runs that share the store.  Each run passes
\* the download_resolution of its configuration in every call (lines 362
\* and 403): savers[p].resolution from the start on.
SaveUrls == {"v1", "v2"}

EmptyStore == [k \in StoreKeys |-> NoMap]

nonCacheVars == <<pc, config, environ, transcribe_videos, whisperx_base_url,
                  store_id, filtered_videos, total_fetched, filtered_count, idx,
                  result, net, trail, runlog, prober, tvars>>

CInit ==
    /\ pc = "cache"
    /\ config = [download_videos |-> TRUE, force_refresh_cache |-> FALSE,
                 transcribe_videos |-> FALSE, time_filter |-> 0,
                 download_resolution |-> "360"]
    /\ environ = [APIFY_API_KEY |-> "key", WHISPERX_MODEL_URL |-> None]
    /\ kv = EmptyStore
    /\ transcribe_videos = FALSE
    /\ whisperx_base_url = None
    /\ store_id = "store"
    /\ filtered_videos = <<>>
    /\ total_fetched = 0
    /\ filtered_count = 0
    /\ idx = 0
    /\ result = NoResult
    /\ net = [k \in 1..MaxVideos |-> NetZero]
    /\ trail = [k \in 1..MaxVideos |-> TrailZero]
    /\ runlog = RunlogZero
    /\ savers \in {[p \in Runs |-> [SaverIdle EXCEPT !.resolution = f[p]]] :
                     f \in [Runs -> CacheResolutions]}
    /\ cachelog = CachelogZero
    /\ prober = ProberIdle
    /\ IdleInit

RECURSIVE SavesStarted(_)
\* The calls of _save_link_to_store begun so far by the runs in `runs`.
SavesStarted(runs) ==
    IF runs = {} THEN 0
    ELSE LET p == CHOOSE r \in runs : TRUE
         IN  savers[p].calls + (IF savers[p].pc = "write" THEN 1 ELSE 0)
               + SavesStarted(runs \ {p})

\* Lines 81-84 and 89-91 of _save_link_to_store: get_record, or its
\* exception and the return of False.
save_read(p) ==
    /\ pc = "cache"
    /\ savers[p].pc = "idle"
    /\ SavesStarted(Runs) < MaxSaves
    /\ \E youtube_url \in SaveUrls, download_url \in JobUrls \cup CachedUrls,
          resolution \in {savers[p].resolution}, ok \in BOOLEAN :
         savers' = [savers EXCEPT ![p] =
             IF ok
             THEN [pc |-> "write", youtube_url |-> youtube_url,
                   download_url |-> download_url, resolution |-> resolution,
                   link_map |-> kv[MAP_KEY(resolution)], ret |-> "none",
                   calls |-> @.calls]
             ELSE [pc |-> "idle", youtube_url |-> youtube_url,
                   download_url |-> download_url, resolution |-> resolution,
                   link_map |-> NoMap, ret |-> "False", calls |-> @.calls + 1]]
    /\ UNCHANGED <<kv, cachelog, nonCacheVars>>

\* Lines 85-91: the entry is set in the map that was read, set_record
\* replaces the record and the call returns True, or set_record raises and
\* it returns False.
save_write(p) ==
    /\ pc = "cache"
    /\ savers[p].pc = "write"
    /\ \E ok \in BOOLEAN :
         LET c == savers[p]
         IN  IF ok
             THEN /\ kv' = SetRecord(kv, MAP_KEY(c.resolution),
                                     Upsert(c.link_map, c.youtube_url, c.download_url))
                  /\ savers' = [savers EXCEPT ![p].pc = "idle", ![p].ret = "True",
                                              ![p].calls = @ + 1]
                  /\ cachelog' = [cachelog EXCEPT !.lastWrite =
                         [run |-> p, youtube_url |-> c.youtube_url,
                          download_url |-> c.download_url,
                          resolution |-> c.resolution]]
             ELSE /\ savers' = [savers EXCEPT ![p].pc = "idle", ![p].ret = "False",
                                              ![p].calls = @ + 1]
                  /\ UNCHANGED <<kv, cachelog>>
    /\ UNCHANGED nonCacheVars

\* _get_link_from_store, lines 67-77, called by any run.
get_link ==
    /\ pc = "cache"
    /\ \E youtube_url \in SaveUrls, ok \in BOOLEAN,
          resolution \in {savers[p].resolution : p \in Runs} :
         cachelog' = [cachelog EXCEPT !.lastGet =
             [youtube_url |-> youtube_url, resolution |-> resolution, ok |-> ok,
              value |-> get_link_from_store(kv, ok, youtube_url, resolution),
              since |-> cachelog.lastWrite]]
    /\ UNCHANGED <<kv, savers, nonCacheVars>>

CNext ==
    \/ \E p \in Runs : save_read(p)
    \/ \E p \in Runs : save_write(p)
    \/ get_link

SpecC == CInit /\ [][CNext]_vars

\* A call of _is_url_valid on its own.
VInit ==
    /\ pc = "probe"
    /\ config = [download_videos |-> TRUE, force_refresh_cache |-> FALSE,
                 transcribe_videos |-> FALSE, time_filter |-> 0,
                 download_resolution |-> "360"]
    /\ environ = [APIFY_API_KEY |-> "key", WHISPERX_MODEL_URL |-> None]
    /\ kv = EmptyStore
    /\ transcribe_videos = FALSE
    /\ whisperx_base_url = None
    /\ store_id = "store"
    /\ filtered_videos = <<>>
    /\ total_fetched = 0
    /\ filtered_count = 0
    /\ idx = 0
    /\ result = NoResult
    /\ net = [k \in 1..MaxVideos |-> NetZero]
    /\ trail = [k \in 1..MaxVideos |-> TrailZero]
    /\ runlog = RunlogZero
    /\ savers = [p \in Runs |-> SaverIdle]
    /\ cachelog = CachelogZero
    /\ prober \in {[ProberIdle EXCEPT !.pc = "call", !.url = u] : u \in ProbedUrls}
    /\ IdleInit

\* Lines 93-108: the whole call.
is_url_valid_call ==
    /\ pc = "probe"
    /\ prober.pc = "call"
    /\ IF Falsy(prober.url)
       THEN prober' = [prober EXCEPT !.pc = "ret", !.ret = "False"]
       ELSE \E o \in HeadOutcomes :
              prober' = [prober EXCEPT
                  !.pc = "ret",
                  !.outcome = o,
                  !.heads = @ + 1,
                  !.ret = IF is_url_valid(prober.url, HeadProbe(o)) THEN "True"
                          ELSE "False"]
    /\ UNCHANGED <<evarsButProber, tvars>>

VNext == is_url_valid_call

SpecV == VInit /\ [][VNext]_vars

(* ------------------- claims about _get_transcription ------------------ *)

\* C3: _get_transcription returns, for every sequence of submit and poll
\* responses, a pair (status, payload) whose status is 'success' or 'error'.
\* (Violated: when every poll attempt is used up the function returns None.)
C3_ReturnsStatusPair ==
    tpc = "ret" => (tret.kind = "pair" /\ tret.status \in {"success", "error"})

\* A poll attempt that ended in an exception of the requests hierarchy.
TransportError(r) == r.kind \in {"Timeout", "ConnectionError"}

\* C4 as stated: a poll attempt that ends in a request timeout or in any
\* other transport error is not terminal, the client goes on while attempts
\* remain.  (Violated by a connection error.)
C4_TransportErrorNotTerminal ==
    (polls >= 1 /\ TransportError(lastPoll) /\ attempt < max_polls) => tpc = "poll"

\* C4 as amended: a poll attempt that ends in a request timeout is not
\* terminal (the call goes on to the next attempt while attempts remain, and
\* ends otherwise only by using the attempts up); a poll attempt that ends
\* in any other transport error is terminal and returns 'error' with the
\* message "Polling connection error: ...".
C4_TimeoutRetriedConnectionErrorFatal ==
    /\ (polls >= 1 /\ lastPoll.kind = "Timeout") =>
          /\ attempt < max_polls => (tpc = "poll" /\ tret = NotReturned)
          /\ tpc = "ret" => (attempt = max_polls /\ tret = PyNone)
    /\ (polls >= 1 /\ lastPoll.kind = "ConnectionError") =>
          /\ tpc = "ret"
          /\ tret.status = "error"
          /\ Contains(tret.message, "Polling connection error: ")

C4_Witness ==
    /\ tpc = "poll"
    /\ polls >= 1
    /\ lastPoll.kind = "Timeout"
    /\ attempt < max_polls

\* A poll response that the claim C5 calls terminal.
TerminalPoll(r) ==
    /\ r.kind = "http"
    /\ \/ r.code = 200 /\ r.json = "object" /\ r.status \in {"SUCCESS", "FAILED"}
       \/ r.code \notin {200, 202}

\* C5: the first terminal poll response ends polling (the call has returned
\* as soon as it is received, so no poll request follows) and determines the
\* result: 200 SUCCESS gives ('success', decoded body), 200 FAILED gives
\* 'error' with the remote reason in the message, 404 gives 'error' with
\* '404' in the message, any status other than 200, 202, 404 gives 'error'.
C5_TerminalPollDecides ==
    (polls >= 1 /\ TerminalPoll(lastPoll)) =>
        /\ tpc = "ret"
        /\ tret.kind = "pair"
        /\ (lastPoll.code = 200 /\ lastPoll.status = "SUCCESS") =>
               (tret.status = "success" /\ tret.data = lastPoll)
        /\ (lastPoll.code = 200 /\ lastPoll.status = "FAILED") =>
               /\ tret.status = "error"
               /\ lastPoll.error # None => Contains(tret.message, lastPoll.error)
        /\ lastPoll.code = 404 =>
               (tret.status = "error" /\ Contains(tret.message, "404"))
        /\ lastPoll.code \notin {200, 202, 404} => tret.status = "error"

C5_Witness ==
    /\ tpc = "ret"
    /\ polls >= 2
    /\ lastPoll.code = 200
    /\ lastPoll.status = "FAILED"
    /\ lastPoll.error = "oom"
    /\ Contains(tret.message, "oom")

\* A poll response that means "still processing": HTTP 202, or HTTP 200
\* with status RUNNING or with a status string the client does not know.
StillProcessing(r) ==
    /\ r.kind = "http"
    /\ \/ r.code = 202
       \/ r.code = 200 /\ r.json = "object" /\ r.status \in {"RUNNING", "QUEUED"}

\* C6: a poll response of HTTP 202, 200 RUNNING or 200 with an unrecognized
\* status never ends the call by itself: it uses up exactly one attempt, the
\* call has not returned after it, and whenever attempts remain another
\* poll can (and is the only step that can) follow.
C6_StillProcessingContinues ==
    /\ [][(tpc = "poll" /\ polls' = polls + 1 /\ StillProcessing(lastPoll')) =>
             (attempt' = attempt + 1 /\ tpc' = "poll" /\ tret' = NotReturned)]_vars
    /\ []((tpc = "poll" /\ attempt < max_polls) =>
             (ENABLED get_transcription_iteration /\ ~ENABLED get_transcription_loop_end))

C6_Witness ==
    /\ tpc = "poll"
    /\ attempt = 2
    /\ attempt < max_polls
    /\ lastPoll.code = 200
    /\ lastPoll.status = "QUEUED"

\* A submission the client accepts.
Accepted(r) ==
    /\ r.kind = "http"
    /\ r.code \in {200, 201, 202}
    /\ r.json = "object"
    /\ r.task_id \notin {None, ""}

\* C7: a poll request is sent only after a submission answered 200, 201 or
\* 202 with a JSON body holding a non-empty task_id; every other submission
\* outcome returns 'error' with no poll request; without a service base URL
\* the call returns 'error' with no request at all.
C7_PollOnlyAfterAcceptedSubmit ==
    /\ polls >= 1 => (submits = 1 /\ Accepted(lastSubmit) /\ task_id = lastSubmit.task_id)
    /\ (submits = 1 /\ ~Accepted(lastSubmit)) =>
          (tpc = "ret" /\ tret.kind = "pair" /\ tret.status = "error" /\ polls = 0)
    /\ Falsy(targs.whisperx_base_url) => (submits = 0 /\ polls = 0)
    /\ (Falsy(targs.whisperx_base_url) /\ tpc # "call") =>
          (tpc = "ret" /\ tret.kind = "pair" /\ tret.status = "error")

C7_Witness ==
    /\ tpc = "ret"
    /\ submits = 1
    /\ lastSubmit.kind = "http"
    /\ lastSubmit.code = 202
    /\ lastSubmit.json = "object"
    /\ lastSubmit.task_id = ""
    /\ polls = 0

(* ------------------------- claims about execute ----------------------- *)

\* The videos of the run, once fetched.
Videos == 1..Len(filtered_videos)

\* C1: whatever the external services answer, execute returns a result
\* record and no exception leaves it.  (Violated: a cached video whose
\* transcription uses up every poll attempt.)
C1_NoExceptionEscapes ==
    /\ pc # "raised"
    /\ pc = "done" => result.kind = "returned"

\* The link resolved for video k in this run, None when there is none yet.
ResolvedLink(k) ==
    IF trail[k].path = "cache" THEN trail[k].cached_url
    ELSE IF trail[k].job \in JobUrls THEN trail[k].job
    ELSE None

\* C2: once a video's link is resolved in a run (from the cache or by the
\* job), no transcription outcome changes its download_status or its
\* download_url.  (Violated: a fresh link whose transcription uses up every
\* poll attempt ends with download_status = error and no download_url.)
C2_TranscriptionKeepsDownload ==
    \A k \in Videos :
        ResolvedLink(k) # None =>
            /\ filtered_videos[k].download_status = "success"
            /\ filtered_videos[k].download_url = ResolvedLink(k)

\* Whether the probe of video k's cached link succeeded.
ProbeSucceeded(k) == 200 <= trail[k].probe /\ trail[k].probe <= 399

\* C8: without force_refresh_cache, when the cache holds a link for the
\* video and its probe succeeds, the video has download_status = success,
\* download_cached = true and download_url = the cached link, the job is
\* not invoked for it and the cache is not written for it.
C8_ValidHitUsesCache ==
    \A k \in Videos :
        (/\ ~config.force_refresh_cache
         /\ trail[k].path \notin {"none", "missing"}
         /\ ~Falsy(trail[k].cached_url)
         /\ ProbeSucceeded(k)) =>
            /\ filtered_videos[k].download_status = "success"
            /\ filtered_videos[k].download_cached = TRUE
            /\ filtered_videos[k].download_url = trail[k].cached_url
            /\ trail[k].cached_url = trail[k].entry_before
            /\ trail[k].job = None
            /\ net[k].jobs = 0
            /\ net[k].writes = 0
            /\ net[k].reads = 1
            /\ net[k].probes = 1
            /\ EntryOf(kv, filtered_videos[k].url) = trail[k].entry_before
            /\ pc = "done" => result.videos[k] = filtered_videos[k]

C8_Witness ==
    /\ pc = "done"
    /\ \E k \in Videos :
         /\ trail[k].probe = 399
         /\ filtered_videos[k].download_cached = TRUE
         /\ result.videos[k].download_url = "c1"

\* C9: with force_refresh_cache and a cache entry for the video, the cache
\* is not consulted, the job is invoked, and when it resolves a link the
\* video is returned with that link and download_cached = false, and the
\* link replaces the cache entry (when the store accepts the write).
\* (Violated: a transcription that uses up every poll attempt.)
C9_ForcedRefreshResult ==
    \A k \in Videos :
        (/\ pc = "done"
         /\ config.force_refresh_cache
         /\ trail[k].path = "forced"
         /\ trail[k].entry_before # None) =>
            /\ net[k].reads = 0
            /\ net[k].probes = 0
            /\ net[k].jobs = 1
            /\ trail[k].job \in JobUrls =>
                  /\ result.videos[k].download_status = "success"
                  /\ result.videos[k].download_url = trail[k].job
                  /\ result.videos[k].download_cached = FALSE
                  /\ trail[k].saved => EntryOf(kv, filtered_videos[k].url) = trail[k].job

\* C10: without force_refresh_cache, a miss or a hit whose probe fails leads
\* to exactly one invocation of the job; when the job resolves a link the
\* video ends with download_status = success, download_cached = false, and
\* the cache entry is written with the new link (when the store accepts
\* the write).  (Violated: a transcription that uses up every poll attempt.)
C10_MissOrStaleResolves ==
    \A k \in Videos :
        (/\ pc \in {"done", "raised"}
         /\ ~config.force_refresh_cache
         /\ trail[k].path \in {"miss", "stale"}) =>
            /\ net[k].jobs = 1
            /\ trail[k].job \in JobUrls =>
                  /\ filtered_videos[k].download_status = "success"
                  /\ filtered_videos[k].download_cached = FALSE
                  /\ filtered_videos[k].download_url = trail[k].job
                  /\ trail[k].saved => EntryOf(kv, filtered_videos[k].url) = trail[k].job

(* ------------------ claims about the download loop -------------------- *)

\* The resolution job of video k returned no item, an item without a
\* downloadUrl, or its call raised.
JobFailed(k) == trail[k].job \in {"<no link>", "<raised>"}

\* The loop of line 347 has ended.
DownloadLoopDone == pc \in {"cached", "transcribe_cached", "return", "done", "raised"}

TerminalDownload(v) ==
    /\ "download_status" \in v.keys
    /\ v.download_status \in {"success", "error"}

\* C11: a video whose resolution job fails (no item, no downloadUrl, or an
\* exception of the call) has download_status = error and download_url =
\* None from then on; the loop goes on, so that when it has ended every
\* later video has a terminal download status; and the result the run
\* returns carries the failed video with error = None.
C11_DownloadFailureIsLocal ==
    \A k \in Videos :
        JobFailed(k) =>
            /\ filtered_videos[k].download_status = "error"
            /\ filtered_videos[k].download_url = None
            /\ pc \notin {"start", "store", "fetch"}
            /\ DownloadLoopDone =>
                  \A j \in Videos : j > k => TerminalDownload(filtered_videos[j])
            /\ pc = "done" =>
                  /\ result.kind = "returned"
                  /\ result.error = NoMessage
                  /\ result.videos = filtered_videos

C11_Witness ==
    /\ pc = "done"
    /\ Len(filtered_videos) >= 2
    /\ trail[1].job = "<raised>"
    /\ result.videos[1].download_status = "error"
    /\ result.videos[2].download_status = "success"
    /\ result.error = NoMessage

\* The loop of line 347 has run and has finished with video k.
Processed(k) ==
    /\ config.download_videos
    /\ \/ DownloadLoopDone
       \/ pc \in {"download", "fresh", "transcribe_fresh"} /\ idx > k

\* C12: for a video without a url no network call is ever made (no cache
\* read, probe, resolution job, cache write or transcription request), and
\* once the download loop has passed it the video has download_status = error and
\* download_url = None, which is how the run returns it.
C12_MissingUrlNoCalls ==
    \A k \in Videos :
        Falsy(filtered_videos[k].url) =>
            /\ net[k] = NetZero
            /\ trail[k].job = None
            /\ trail[k].cached_url = None
            /\ Processed(k) =>
                  /\ DownloadKeys \subseteq filtered_videos[k].keys
                  /\ filtered_videos[k].download_status = "error"
                  /\ filtered_videos[k].download_url = None
                  /\ filtered_videos[k].download_message = <<"Missing video URL">>
            /\ pc = "done" => result.videos[k] = filtered_videos[k]

C12_Witness ==
    /\ pc = "done"
    /\ \E k, j \in Videos :
         /\ Falsy(filtered_videos[k].url)
         /\ result.videos[k].download_status = "error"
         /\ net[k] = NetZero
         /\ net[j].jobs = 1

\* The cache read for video k failed: the store held an entry and
\* _get_link_from_store returned None.
ReadFailed(k) == trail[k].path = "miss" /\ trail[k].entry_before # None

\* The step is the write-through of video k and the store refused it.
WriteFails(k) ==
    /\ net'[k].writes = net[k].writes + 1
    /\ ~trail'[k].saved

\* The step is the cache read of video k and the store did not answer it.
ReadFails(k) ==
    /\ net'[k].reads = net[k].reads + 1
    /\ trail'[k].entry_before # None
    /\ trail'[k].cached_url = None

\* C13: a cache read that fails is treated as a miss: no probe, the video
\* goes on to the resolution job, which is invoked exactly once; a cache
\* write that fails after a successful resolution leaves the video with
\* download_status = success and the resolved link, and the store as it
\* was; neither step raises or ends the run.
C13_CacheFailureNotFatal ==
    /\ [](\A k \in Videos :
            ReadFailed(k) =>
               /\ net[k].reads = 1
               /\ net[k].probes = 0
               /\ net[k].jobs = IF pc = "fresh" /\ idx = k THEN 0 ELSE 1
               /\ trail[k].job = None <=> (pc = "fresh" /\ idx = k))
    /\ [][\A k \in 1..MaxVideos :
            /\ ReadFails(k) =>
                  /\ pc' = "fresh"
                  /\ idx' = k
                  /\ filtered_videos'[k].download_status = "pending"
                  /\ UNCHANGED <<kv, result>>
            /\ WriteFails(k) =>
                  /\ trail'[k].job \in JobUrls
                  /\ filtered_videos'[k].download_status = "success"
                  /\ filtered_videos'[k].download_url = trail'[k].job
                  /\ filtered_videos'[k].download_cached = FALSE
                  /\ pc' \in {"download", "cached", "transcribe_fresh"}
                  /\ UNCHANGED <<kv, result>>]_vars

C13_Witness ==
    /\ pc = "done"
    /\ result.error = NoMessage
    /\ \E k \in Videos :
         /\ ReadFailed(k)
         /\ trail[k].job \in JobUrls
         /\ ~trail[k].saved
         /\ net[k].writes = 1
         /\ result.videos[k].download_status = "success"
         /\ result.videos[k].download_url = trail[k].job
         /\ EntryOf(kv, filtered_videos[k].url) = trail[k].entry_before

(* --------------- claims about transcription in a run ------------------ *)

\* C14: when a run with download_videos returns, every video of the result
\* carries a transcription status: the client's ('success' or 'error')
\* when its download ended in success and transcription was requested with
\* a service address configured, 'skipped' with a reason otherwise,
\* whatever the download outcome.  (Violated: a video without a url gets
\* the download fields only.)
C14_EveryVideoHasTranscriptionStatus ==
    (pc = "done" /\ config.download_videos /\ result.error = NoMessage) =>
        \A k \in DOMAIN result.videos :
            LET v == result.videos[k]
            IN  /\ "transcription_status" \in v.keys
                /\ IF v.download_status = "success" /\ TranscriptionWanted
                   THEN v.transcription_status \in {"success", "error"}
                   ELSE /\ v.transcription_status = "skipped"
                        /\ v.transcription_message # NoMessage

\* The run has ended: execute returned, or an exception left it.
RunEnded == pc \in {"done", "raised"}

\* C15: in a run with transcribe_videos and a service address, no video is
\* submitted for transcription twice, and when the run has ended each video
\* whose download ended in success, from the cache or from the job, was
\* submitted exactly once.  (Violated: a cached video whose transcription
\* uses up every poll attempt ends the run before the cached videos after
\* it are submitted.)
C15_SuccessSubmittedOnce ==
    TranscriptionWanted =>
        \A k \in Videos :
            /\ net[k].submits <= 1
            /\ (RunEnded /\ filtered_videos[k].download_status = "success") =>
                  net[k].submits = 1

(* -------------------- claims about the run's result ------------------- *)

StoreInitFailed == runlog.store_calls = 1 /\ store_id = None

\* No request has left the run: no store, scraper, cache, probe, job or
\* transcription call.
NoNetworkCall ==
    /\ runlog.store_calls = 0
    /\ runlog.scrape_calls = 0
    /\ \A k \in 1..MaxVideos : net[k] = NetZero
    /\ submits = 0 /\ polls = 0

\* C16: the returned error is not None exactly when the credential is
\* missing, the store could not be initialized or the channel-video
\* retrieval failed; then videos is empty and both counts are 0; a missing
\* credential returns before any network call, a store failure before the
\* scraper call; a result that carries per-video failures has error None.
\* (Violated: an exception of the time filter, raised after the retrieval
\* succeeded, is returned as a run-level error too.)
C16_ErrorIffRunLevelFailure ==
    pc = "done" =>
        /\ result.kind = "returned"
        /\ result.error # NoMessage <=>
              \/ Falsy(environ.APIFY_API_KEY)
              \/ StoreInitFailed
              \/ runlog.fetch = "scrape raised"
        /\ result.error # NoMessage =>
              /\ result.videos = <<>>
              /\ result.filtered_count = 0
              /\ result.total_fetched = 0
        /\ Falsy(environ.APIFY_API_KEY) => NoNetworkCall
        /\ StoreInitFailed => runlog.scrape_calls = 0
        /\ result.videos # <<>> => result.error = NoMessage

\* C17: no video with isMembersOnly = true is in the list a run works on or
\* in the videos it returns, under every configuration.
C17_NoMembersOnlyInOutput ==
    /\ \A k \in Videos : ~filtered_videos[k].isMembersOnly
    /\ \A k \in DOMAIN result.videos : ~result.videos[k].isMembersOnly

C17_Witness ==
    /\ pc = "done"
    /\ \E v \in runlog.raw : v.isMembersOnly
    /\ Len(result.videos) = 1
    /\ Cardinality(runlog.raw) = 2

\* The scraped item v is among the returned videos.
InOutput(v) ==
    \E k \in DOMAIN result.videos :
        /\ result.videos[k].url = v.url
        /\ result.videos[k].date = v.date

ParseableDate(v) == v.date.form \in {"Z", "offset", "naive"}

\* C18: when the run ends after the scraper returned its items, a public
\* item whose date is ISO-8601 (Z suffix, explicit offset or no timezone) is
\* in the output, for time_filter = T > 0, iff its age is less than T
\* hours; with time_filter = 0 every public item is in the output.
\* (Violated: a date without timezone makes the subtraction of line 316
\* raise, and the run returns an error and no video.)
C18_TimeFilterByAge ==
    (pc = "done" /\ runlog.fetch \in {"ok", "filter raised"}) =>
        \A v \in runlog.raw :
            ~v.isMembersOnly =>
                IF config.time_filter > 0
                THEN ParseableDate(v) =>
                        (InOutput(v) <=> v.date.age < config.time_filter)
                ELSE InOutput(v)

(* --------------------- claims about the link cache -------------------- *)

\* The last _get_link_from_store asked for the entry that the last
\* successful _save_link_to_store before it had written.
ReadAfterWrite ==
    /\ cachelog.lastGet.since # NoWrite
    /\ cachelog.lastGet.youtube_url = cachelog.lastGet.since.youtube_url
    /\ cachelog.lastGet.resolution = cachelog.lastGet.since.resolution

\* C19, the round trip as stated: after _save_link_to_store returned True,
\* and with no other write to the map in between, _get_link_from_store
\* returns the link that was saved.  (Violated: a read that the store does
\* not answer returns None.)
C19_ReadReturnsWritten ==
    ReadAfterWrite => cachelog.lastGet.value = cachelog.lastGet.since.download_url

\* The step is the set_record of run p's call, and the call returns True.
SaveSucceeds(p) ==
    /\ savers[p].pc = "write"
    /\ savers'[p].pc = "idle"
    /\ savers'[p].ret = "True"

\* C19 as amended: after _save_link_to_store returned True, and with no
\* other write to the map in between, a _get_link_from_store whose
\* get_record succeeds returns the link that was saved (one whose
\* get_record fails returns None); and saving an entry that the last write
\* saved, into the map as that write left it, leaves the store unchanged.
C19_RoundTripWhenReadSucceeds ==
    /\ [](ReadAfterWrite =>
            cachelog.lastGet.value =
                IF cachelog.lastGet.ok THEN cachelog.lastGet.since.download_url
                ELSE None)
    /\ [][\A p \in Runs :
            (/\ SaveSucceeds(p)
             /\ cachelog.lastWrite.youtube_url = savers[p].youtube_url
             /\ cachelog.lastWrite.download_url = savers[p].download_url
             /\ cachelog.lastWrite.resolution = savers[p].resolution
             /\ savers[p].link_map = kv[MAP_KEY(savers[p].resolution)]) =>
                kv' = kv]_vars

C19_Witness ==
    /\ ReadAfterWrite
    /\ cachelog.lastGet.ok
    /\ cachelog.lastGet.value = "c1"
    /\ \A p \in Runs :
         /\ savers[p].ret = "True"
         /\ savers[p].youtube_url = cachelog.lastGet.youtube_url
         /\ savers[p].download_url = "c1"

\* The last calls of runs p and q both returned True, for different videos
\* in the map of one resolution, and q's set_record came last.
BothSaved(p, q) ==
    /\ p # q
    /\ savers[p].pc = "idle" /\ savers[p].ret = "True"
    /\ savers[q].pc = "idle" /\ savers[q].ret = "True"
    /\ savers[p].resolution = savers[q].resolution
    /\ savers[p].youtube_url # savers[q].youtube_url
    /\ cachelog.lastWrite.run = q

\* Run p's entry is not in the map although its call returned True.
LostUpdate(p, q) ==
    /\ BothSaved(p, q)
    /\ kv[MAP_KEY(savers[p].resolution)][savers[p].youtube_url] # savers[p].download_url

\* C20: when two runs have saved different videos into one resolution's
\* map and both calls returned True, the map is the one the second writer
\* had read plus its own entry: the first writer's entry is in it iff the
\* second writer's get_record came after the first writer's set_record,
\* and otherwise it is lost without any sign, and a later
\* _get_link_from_store for that video does not return the saved link.
C20_LastWriterWins ==
    \A p, q \in Runs :
        BothSaved(p, q) =>
            LET key == MAP_KEY(savers[q].resolution)
                mine == savers[p].youtube_url
            IN  /\ kv[key] = Upsert(savers[q].link_map, savers[q].youtube_url,
                                    savers[q].download_url)
                /\ kv[key][savers[q].youtube_url] = savers[q].download_url
                /\ kv[key][mine] = savers[q].link_map[mine]
                /\ LostUpdate(p, q) <=>
                      savers[q].link_map[mine] # savers[p].download_url
                /\ LostUpdate(p, q) =>
                      \A ok \in BOOLEAN :
                          get_link_from_store(kv, ok, mine, savers[p].resolution)
                              # savers[p].download_url

\* The lost update: both calls returned True, the first writer's entry is
\* missing, and a read of it that the store answered found nothing.
C20_Witness ==
    \E p, q \in Runs :
        /\ LostUpdate(p, q)
        /\ kv[MAP_KEY(savers[p].resolution)][savers[p].youtube_url] = None
        /\ cachelog.lastGet.ok
        /\ cachelog.lastGet.since.run = q
        /\ cachelog.lastGet.youtube_url = savers[p].youtube_url
        /\ cachelog.lastGet.resolution = savers[p].resolution
        /\ cachelog.lastGet.value = None

(* -------------------- claims about _is_url_valid ----------------------- *)

\* C21: a call of _is_url_valid returns True or False; True iff its one
\* HEAD request was answered with a status code from 200 to 399; for an
\* absent or empty url it returns False without a request; an exception of
\* the request (timeout, connection error, malformed url, any other) gives
\* False; the request is made at most once.
C21_ProbeDecides ==
    prober.pc = "ret" =>
        /\ prober.ret \in {"True", "False"}
        /\ prober.ret = "True" <=>
              /\ prober.heads = 1
              /\ prober.outcome.kind = "response"
              /\ 200 <= prober.outcome.code /\ prober.outcome.code <= 399
        /\ Falsy(prober.url) => (prober.heads = 0 /\ prober.ret = "False")
        /\ prober.outcome.kind \in HeadExceptions => prober.ret = "False"
        /\ prober.heads <= 1

C21_Witness ==
    /\ prober.pc = "ret"
    /\ prober.ret = "True"
    /\ prober.outcome.code = 399
    /\ prober.heads = 1

(* ------------------ claims about the run's settings -------------------- *)

\* C22: in a run with download_videos false no store is created, no cache
\* read or write, probe, resolution job or transcription request is made,
\* and no video of the list or of the result carries a download_* or a
\* transcription field, whatever transcribe_videos and force_refresh_cache.
C22_NoDownloadNoCalls ==
    ~config.download_videos =>
        /\ runlog.store_calls = 0
        /\ store_id = None
        /\ \A k \in 1..MaxVideos : net[k] = NetZero /\ trail[k] = TrailZero
        /\ tpc = "idle" /\ submits = 0 /\ polls = 0
        /\ \A k \in Videos : filtered_videos[k].keys = {}
        /\ \A k \in DOMAIN result.videos : result.videos[k].keys = {}

C22_Witness ==
    /\ pc = "done"
    /\ ~config.download_videos
    /\ config.transcribe_videos
    /\ config.force_refresh_cache
    /\ environ.WHISPERX_MODEL_URL # None
    /\ Len(result.videos) = 2
    /\ \E k \in DOMAIN result.videos : result.videos[k].url = "v1"

\* Transcription is requested and the environment has no service address
\* (and the credential is there, so that the run gets past line 250).
SoftDisabled ==
    /\ config.transcribe_videos
    /\ Falsy(environ.WHISPERX_MODEL_URL)
    /\ ~Falsy(environ.APIFY_API_KEY)

\* C23: when transcription is requested and WHISPERX_MODEL_URL is not set,
\* transcription is off from line 267 on, no request goes to the
\* transcription service, no exception leaves the run, the result's error
\* is None unless the store or the channel fetch failed, every video gets
\* a terminal download status, and every video whose download succeeded
\* is returned with transcription_status = skipped.
C23_MissingAddressSoftDisables ==
    SoftDisabled =>
        /\ pc # "start" => ~transcribe_videos
        /\ tpc = "idle" /\ submits = 0 /\ polls = 0
        /\ \A k \in 1..MaxVideos : net[k].submits = 0
        /\ pc # "raised"
        /\ pc = "done" =>
              /\ result.kind = "returned"
              /\ result.error # NoMessage => (StoreInitFailed \/ runlog.fetch # "ok")
              /\ \A k \in DOMAIN result.videos :
                    LET v == result.videos[k]
                    IN  config.download_videos =>
                          /\ TerminalDownload(v)
                          /\ v.download_status = "success" =>
                                /\ v.transcription_status = "skipped"
                                /\ v.transcription_message
                                      = <<"Transcription was not requested.">>

C23_Witness ==
    /\ SoftDisabled
    /\ pc = "done"
    /\ result.error = NoMessage
    /\ Len(result.videos) = 2
    /\ result.videos[1].download_status = "success"
    /\ result.videos[1].download_cached
    /\ result.videos[1].transcription_status = "skipped"
    /\ result.videos[2].download_status = "success"
    /\ ~result.videos[2].download_cached
    /\ result.videos[2].transcription_status = "skipped"

\* C24: a run whose download_resolution is outside the set of valid
\* resolutions never reaches the store, the channel fetch, the cache or the
\* resolution job.
C24_InvalidResolutionRejected ==
    config.download_resolution \notin valid_resolutions =>
        /\ runlog.store_calls = 0
        /\ runlog.scrape_calls = 0
        /\ \A k \in 1..MaxVideos : net[k] = NetZero

\* C25 as stated: a call that has returned has made exactly one submission
\* request, at most max_polls poll requests, and one sleep for each poll.
C25_ExactlyOneSubmission ==
    tpc = "ret" => (submits = 1 /\ polls <= max_polls /\ sleeps = polls)

\* C25: every call of _get_transcription returns; it makes one submission
\* request when it is given a service address and none when the address is
\* missing, never more than max_polls poll requests, polls only after a
\* submission, and sleeps once before each poll request.
C25_TerminatesWithinBounds ==
    /\ [](/\ submits <= 1
          /\ polls <= max_polls
          /\ sleeps = polls
          /\ polls > 0 => submits = 1
          /\ tpc = "ret" => (submits = 1 <=> ~Falsy(targs.whisperx_base_url)))
    /\ <>(tpc = "ret")

C25_Witness ==
    /\ tpc = "ret"
    /\ submits = 1
    /\ polls = max_polls
    /\ sleeps = max_polls
    /\ lastPoll.kind = "Timeout"

\* The iteration of line 347 for video k has begun: its first assignment
\* to download_status has been made.
Begun(k) == "download_status" \in filtered_videos[k].keys

HasTranscription(k) == "transcription_status" \in filtered_videos[k].keys

\* Every step of video k is complete: its download has ended, and its
\* transcription too when transcription is enabled and the download
\* succeeded.
AllStepsDone(k) ==
    /\ TerminalDownload(filtered_videos[k])
    /\ (TranscriptionWanted /\ filtered_videos[k].download_status = "success")
          => HasTranscription(k)

\* C26 as stated: when a step of a video has begun, every step of each
\* earlier video of the list, its transcription included, is complete.
C26_AllStepsBeforeNextVideo ==
    \A k, j \in Videos : (k < j /\ Begun(j)) => AllStepsDone(k)

\* C26: the download steps run one video at a time in list order, and the
\* transcription of a freshly resolved link is complete before the next
\* video begins; the transcription of a video served from the cache runs
\* in a second pass over the list, after the download steps of every
\* video, in list order and one call at a time, and the second pass is
\* complete when the run returns.
C26_TwoPassesInListOrder ==
    /\ \A k, j \in Videos :
          (k < j /\ Begun(j)) =>
              /\ TerminalDownload(filtered_videos[k])
              /\ (TranscriptionWanted /\ filtered_videos[k].download_status = "success"
                     /\ ~IsCachedSuccess(filtered_videos[k])) => HasTranscription(k)
    /\ \A k \in Videos :
          (IsCachedSuccess(filtered_videos[k])
             /\ (HasTranscription(k) \/ (pc = "transcribe_cached" /\ idx = k))) =>
              /\ DownloadLoopDone
              /\ \A i \in Videos : TerminalDownload(filtered_videos[i])
              /\ \A i \in Videos :
                    (i < k /\ IsCachedSuccess(filtered_videos[i])) => HasTranscription(i)
    /\ tpc # "idle" =>
          /\ pc \in {"transcribe_fresh", "transcribe_cached"}
          /\ idx \in Videos
          /\ ~HasTranscription(idx)
    /\ pc \in {"return", "done"} =>
          \A k \in Videos : IsCachedSuccess(filtered_videos[k]) => HasTranscription(k)

\* The first video comes from the cache and the second was resolved and
\* transcribed before the first one's transcription starts.
C26_Witness ==
    /\ Len(filtered_videos) = 2
    /\ TranscriptionWanted
    /\ pc = "transcribe_cached"
    /\ idx = 1
    /\ IsCachedSuccess(filtered_videos[1])
    /\ ~HasTranscription(1)
    /\ filtered_videos[2].download_status = "success"
    /\ ~IsCachedSuccess(filtered_videos[2])
    /\ filtered_videos[2].transcription_status = "success"

\* The record of the resolution run p is configured with.
OwnRecord(p) == <<"youtube_link_map_", savers[p].resolution>>

\* C27 as stated: a _save_link_to_store that returns True changes nothing
\* in the store but the entry of its video in the map of its resolution.
C27_SaveChangesOneEntry ==
    [][\A p \in Runs :
          SaveSucceeds(p) =>
              \A key \in StoreKeys, u \in VideoUrls :
                  (key # OwnRecord(p) \/ u # savers[p].youtube_url) =>
                      kv'[key][u] = kv[key][u]]_vars

\* C27: a _save_link_to_store that returns True sets the entry of its
\* video in the map of its resolution and leaves the maps of all other
\* resolutions unchanged; the other entries of its map become what its
\* get_record had returned, so they are unchanged when no other write to
\* the map came in between; the store changes by such a write only; and
\* the cache calls of a run configured with resolution R read and write no
\* record but that of R.
C27_SaveWritesOwnMapFromItsCopy ==
    /\ [][\A p \in Runs :
            SaveSucceeds(p) =>
                /\ kv'[OwnRecord(p)][savers[p].youtube_url] = savers[p].download_url
                /\ \A key \in StoreKeys \ {OwnRecord(p)} : kv'[key] = kv[key]
                /\ \A u \in VideoUrls \ {savers[p].youtube_url} :
                      /\ kv'[OwnRecord(p)][u] = savers[p].link_map[u]
                      /\ savers[p].link_map = kv[OwnRecord(p)] =>
                            kv'[OwnRecord(p)][u] = kv[OwnRecord(p)][u]]_vars
    /\ [][\A key \in StoreKeys :
            kv'[key] # kv[key] =>
                \E p \in Runs : SaveSucceeds(p) /\ key = OwnRecord(p)]_vars
    /\ [][\A p \in Runs :
            /\ savers'[p].resolution = savers[p].resolution
            /\ (savers[p].pc = "idle" /\ savers'[p].pc = "write") =>
                  savers'[p].link_map = kv[OwnRecord(p)]]_vars
    /\ [][cachelog'.lastGet # cachelog.lastGet =>
            LET g == cachelog'.lastGet
            IN  /\ \E p \in Runs : g.resolution = savers[p].resolution
                /\ g.value = IF g.ok
                             THEN kv[<<"youtube_link_map_", g.resolution>>][g.youtube_url]
                             ELSE None]_vars

\* Two saves of different videos into one map, the second without a write
\* between its get_record and its set_record: the earlier entry is still
\* there, and the map of the other resolution is as it was.
C27_Witness ==
    \E p, q \in Runs :
        /\ p # q
        /\ savers[p].pc = "idle" /\ savers[p].ret = "True"
        /\ savers[q].pc = "idle" /\ savers[q].ret = "True"
        /\ cachelog.lastWrite.run = q
        /\ savers[p].resolution = "360"
        /\ savers[q].resolution = "360"
        /\ savers[p].youtube_url # savers[q].youtube_url
        /\ kv[OwnRecord(p)][savers[p].youtube_url] = savers[p].download_url
        /\ kv[OwnRecord(q)][savers[q].youtube_url] = savers[q].download_url
        /\ kv[<<"youtube_link_map_", "720">>] = NoMap

\* C28: in a result returned by a run with download_videos, every video
\* has the four download fields, download_status is success or error,
\* download_url is not None exactly when download_status is success, and
\* download_cached is set only when download_status is success.
C28_DownloadFieldsTerminal ==
    (pc = "done" /\ config.download_videos /\ result.kind = "returned") =>
        \A k \in DOMAIN result.videos :
            LET v == result.videos[k]
            IN  /\ DownloadKeys \subseteq v.keys
                /\ v.download_status \in {"success", "error"}
                /\ v.download_url # None <=> v.download_status = "success"
                /\ v.download_cached => v.download_status = "success"

\* A returned result with a video from the cache and a video whose link
\* was resolved and stored before an exception reached the handler of
\* line 441.
C28_Witness ==
    /\ pc = "done"
    /\ config.download_videos
    /\ Len(result.videos) = 2
    /\ result.videos[1].download_status = "success"
    /\ result.videos[1].download_cached
    /\ result.videos[1].download_url = "c1"
    /\ trail[2].job \in JobUrls
    /\ result.videos[2].download_status = "error"
    /\ result.videos[2].download_url = None

\* C29: in a result returned with error = None, filtered_count is the
\* number of videos in the result, total_fetched is the number of items of
\* the scraper that are not members-only, filtered_count <= total_fetched,
\* and the two are equal when time_filter = 0.
C29_CountsAgree ==
    (pc = "done" /\ result.kind = "returned" /\ result.error = NoMessage) =>
        /\ result.filtered_count = Len(result.videos)
        /\ result.total_fetched =
              Cardinality({v \in runlog.raw : ~v.isMembersOnly})
        /\ result.filtered_count <= result.total_fetched
        /\ config.time_filter = 0 => result.filtered_count = result.total_fetched

\* The time filter dropped one of two public videos: a result whose counts
\* differ.
C29_Witness ==
    /\ pc = "done"
    /\ result.error = NoMessage
    /\ config.time_filter = 24
    /\ result.total_fetched = 2
    /\ result.filtered_count = 1
    /\ Len(result.videos) = 1

====
